---- MODULE Spec2Model ----
(***************************************************************************)
(* Model of src/mineralf.py: the batched prediction and the consistency    *)
(* filter of main, the noise argument main hands to simulate_mineral, the  *)
(* composition sampler get_variable_percent and the component dispatch of  *)
(* simulate_mass.                                                          *)
(***************************************************************************)
EXTENDS Integers, Sequences, FiniteSets, TLC

VARIABLES
    pc,            \* position of main: "start", "fit", "predict", "filter", "done", "error"
    noise,         \* main's noise parameter after int(noise)
    batch_size,    \* main's batch_size parameter after int(batch_size)
    x,             \* meteorite_df[elements].values: one feature vector per pixel row
    noise_scale,   \* scale of the baseline noise drawn by simulate_mineral, per mineral and element
    mineral_mins,  \* per mineral, the minimum of each feature element over its synthetic rows
    model,         \* the fitted classifier
    chunks,        \* the arrays handed to model.predict by the batched prediction
    labels,        \* meteorite_df['mineral']
    err,           \* the exception main ended with, "none" otherwise
    \* get_variable_percent
    gpc,           \* position: "start", "loop", "return", "done"
    formula,       \* the variable group: one [min, max] pair per element, in dict order
    n,             \* the sample count
    v,             \* the allocation array, one row per sample, one value per element
    iterations,    \* parity of the number of loop iterations run
    percents,      \* the returned list: per element, the array min + v[:, i]
    \* simulate_mass
    mpc,              \* position: "start", "loop", "done", "error"
    argument,         \* the formula argument as passed
    components,       \* the list of components after lines 75-78
    position,         \* index of the component the loop is at
    mineral_elements, \* accumulated mass per element (one simulated row)
    df,               \* the returned table: per element its mass and percent
    raised            \* the exception simulate_mass ended with

mainVars == <<pc, noise, batch_size, x, noise_scale, mineral_mins, model, chunks, labels, err>>

samplerVars == <<gpc, formula, n, v, iterations, percents>>

massVars == <<mpc, argument, components, position, mineral_elements, df, raised>>

vars == <<mainVars, samplerVars, massVars>>

----------------------------------------------------------------------------
(* Bounds of the model *)

MaxRows == 4
MaxBatch == 3

(* Program constants *)

DefaultNoise == 10

(* Input domains *)

ElementList == <<"Fe", "Mg">>
Elements == {ElementList[i] : i \in 1..Len(ElementList)}
MineralList == <<"M1", "M2">>
Minerals == {MineralList[i] : i \in 1..Len(MineralList)}
LabelList == MineralList \o <<"Unknown">>
PixelValues == {0, 1}
MinValues == {0, 1}
NoiseValues == {10, 20}
ElementNoise == [e \in Elements |-> IF e = "Fe" THEN 1 ELSE 2]
FeatureVectors == [Elements -> PixelValues]
ModelIds == 0..(Len(LabelList) - 1)

RECURSIVE PixelTables(_)
PixelTables(m) ==
    IF m = 0 THEN {<<>>}
    ELSE {Append(t, r) : t \in PixelTables(m - 1), r \in FeatureVectors}

----------------------------------------------------------------------------
(* The classifier: a deterministic function of one feature vector.  The    *)
(* family ModelIds makes every label occur for every feature vector.       *)

RECURSIVE VectorIndex(_, _)
VectorIndex(row, k) ==
    IF k = 0 THEN 0
    ELSE row[ElementList[k]] + (1 + Cardinality(PixelValues)) * VectorIndex(row, k - 1)

PredictRow(mdl, row) ==
    LabelList[((VectorIndex(row, Len(ElementList)) + mdl) % Len(LabelList)) + 1]

\* model.predict on an array of rows
Predict(mdl, rows) == [i \in 1..Len(rows) |-> PredictRow(mdl, rows[i])]

----------------------------------------------------------------------------
(* Batched prediction, main lines 236-240 *)

\* math.ceil(a / b) for a >= 0, b >= 1
Ceil(a, b) == (a + b - 1) \div b

NumSectionsFloor(m, b) == m \div b

\* int(math.ceil(len(x) / batch_size))
NumSections(m, b) == Ceil(m, b)

\* numpy.array_split(ary, Nsections) for Nsections > 0: the first
\* len % Nsections sections hold len // Nsections + 1 rows, the rest len // Nsections
SectionSize(m, Nsections, j) ==
    (m \div Nsections) + (IF j <= m % Nsections THEN 1 ELSE 0)

RECURSIVE SectionStart(_, _, _)
SectionStart(m, Nsections, j) ==
    IF j = 1 THEN 1
    ELSE SectionStart(m, Nsections, j - 1) + SectionSize(m, Nsections, j - 1)

ArraySplit(ary, Nsections) ==
    [j \in 1..Nsections |->
        SubSeq(ary, SectionStart(Len(ary), Nsections, j),
                    SectionStart(Len(ary), Nsections, j)
                        + SectionSize(Len(ary), Nsections, j) - 1)]

\* numpy.concatenate of a non-empty list of sequences
RECURSIVE Concatenate(_)
Concatenate(ss) ==
    IF Len(ss) = 0 THEN <<>> ELSE Head(ss) \o Concatenate(Tail(ss))

----------------------------------------------------------------------------
(* Consistency filter, main lines 243-250 *)

\* the boolean mask built for requirement row k (lines 244-248)
Filter(lbls, k, i) ==
    /\ lbls[i] = MineralList[k]
    /\ \A e \in Elements : mineral_mins[MineralList[k]][e] > 0 => x[i][e] = 0

FilterRowPrevious(lbls, k) ==
    [i \in 1..Len(lbls) |->
        IF Filter(lbls, k, i)
        THEN (IF k = 1 THEN "Unknown" ELSE MineralList[k - 1])
        ELSE lbls[i]]

\* one iteration of the loop over mineral_mins (lines 244-250)
FilterRow(lbls, k) ==
    [i \in 1..Len(lbls) |-> IF Filter(lbls, k, i) THEN "Unknown" ELSE lbls[i]]

\* the whole loop: requirement rows in groupby order
RECURSIVE FilterRows(_, _)
FilterRows(lbls, k) ==
    IF k = 0 THEN lbls ELSE FilterRow(FilterRows(lbls, k - 1), k)

ConsistencyFilter(lbls) == FilterRows(lbls, Len(MineralList))

----------------------------------------------------------------------------
(* main *)

\* the noise argument simulate_mineral runs with in main's call (line 190):
\* the call passes mineral, formula, characteristics and n only
SimulateMineralNoise(mainNoise) == DefaultNoise

\* np.random.normal(scale=e['noise']*noise, ...) in simulate_mineral (line 143)
BaselineScale(e, simNoise) == ElementNoise[e] * simNoise

MainInit ==
    /\ pc = "start"
    /\ noise \in NoiseValues
    /\ batch_size \in 1..MaxBatch
    /\ x \in UNION {PixelTables(m) : m \in 0..MaxRows}
    /\ noise_scale = <<>>
    /\ mineral_mins = <<>>
    /\ model = -1
    /\ chunks = <<>>
    /\ labels = <<>>
    /\ err = "none"

\* lines 189-199: simulate every target mineral, take the per-mineral minimums
SimulateMinerals ==
    /\ pc = "start"
    /\ noise_scale' = [M \in Minerals |->
                          [e \in Elements |-> BaselineScale(e, SimulateMineralNoise(noise))]]
    /\ mineral_mins' \in [Minerals -> [Elements -> MinValues]]
    /\ pc' = "fit"
    /\ UNCHANGED <<noise, batch_size, x, model, chunks, labels, err>>
    /\ UNCHANGED <<samplerVars, massVars>>

\* lines 221-230: fit the classifier on the synthetic table
FitModel ==
    /\ pc = "fit"
    /\ model' \in ModelIds
    /\ pc' = "predict"
    /\ UNCHANGED <<noise, batch_size, x, noise_scale, mineral_mins, chunks, labels, err>>
    /\ UNCHANGED <<samplerVars, massVars>>

\* lines 236-240: predict in batches; array_split raises for 0 sections
PredictBatches ==
    /\ pc = "predict"
    /\ LET Nsections == NumSections(Len(x), batch_size) IN
         IF Nsections <= 0
         THEN /\ err' = "ValueError"
              /\ pc' = "error"
              /\ UNCHANGED <<chunks, labels>>
         ELSE /\ chunks' = ArraySplit(x, Nsections)
              /\ labels' = Concatenate([j \in 1..Nsections |->
                                           Predict(model, ArraySplit(x, Nsections)[j])])
              /\ pc' = "filter"
              /\ err' = "none"
    /\ UNCHANGED <<noise, batch_size, x, noise_scale, mineral_mins, model>>
    /\ UNCHANGED <<samplerVars, massVars>>

\* lines 243-250: the consistency filter pass
FilterPass ==
    /\ pc = "filter"
    /\ labels' = ConsistencyFilter(labels)
    /\ pc' = "done"
    /\ UNCHANGED <<noise, batch_size, x, noise_scale, mineral_mins, model, chunks, err>>
    /\ UNCHANGED <<samplerVars, massVars>>

MainNext == SimulateMinerals \/ FitModel \/ PredictBatches \/ FilterPass

\* get_variable_percent is not running
SamplerIdle ==
    /\ gpc = "idle"
    /\ formula = <<>>
    /\ n = 0
    /\ v = <<>>
    /\ iterations = 0
    /\ percents = <<>>

\* simulate_mass is not running
MassIdle ==
    /\ mpc = "idle"
    /\ argument = <<>>
    /\ components = <<>>
    /\ position = 0
    /\ mineral_elements = <<>>
    /\ df = <<>>
    /\ raised = <<>>

Init == MainInit /\ SamplerIdle /\ MassIdle

Spec == Init /\ [][MainNext]_vars

----------------------------------------------------------------------------
(* Properties of main *)

\* the label the classifier gave row i
Classified(i) == PredictRow(model, x[i])

\* C1: after the consistency filter, every row the classifier labeled M in
\* which some element required by M (minimum > 0) measures exactly 0 is
\* labeled "Unknown"; one missing required element is enough.
C1_MissingRequiredIsUnknown ==
    pc = "done" =>
        \A i \in 1..Len(x) : \A M \in Minerals :
            (/\ Classified(i) = M
             /\ \E e \in Elements : mineral_mins[M][e] > 0 /\ x[i][e] = 0)
            => labels[i] = "Unknown"

\* C2: the batched prediction completes for every table, the empty one
\* included, and yields the labels of one predict call on the whole table.
C2_BatchedEqualsWhole ==
    pc \in {"filter", "error"} =>
        /\ pc = "filter"
        /\ labels = Predict(model, x)

\* C7: the filter changes a label only if some element of the row measures
\* exactly 0; rows with all values nonzero, and rows labeled with a mineral
\* that has no required element, keep the classifier's label.
C7_OnlyZeroRowsChange ==
    pc = "done" =>
        \A i \in 1..Len(x) :
            (\/ \A e \in Elements : x[i][e] # 0
             \/ /\ Classified(i) \in Minerals
                /\ \A e \in Elements : mineral_mins[Classified(i)][e] = 0)
            => labels[i] = Classified(i)

\* C8: a second consistency filter pass over the labels the first pass
\* produced, with the same element requirements, changes no label.
C8_FilterIdempotent ==
    pc = "done" => ConsistencyFilter(labels) = labels

\* C8 witness: the first pass has run and relabeled some row
C8_Witness ==
    /\ pc = "done"
    /\ \E i \in 1..Len(x) : labels[i] # Classified(i)
    /\ \E i \in 1..Len(x) : labels[i] \in Minerals

\* C9 as stated: ceil(m/b) contiguous chunks in row order, each of exactly b
\* rows except the last, which may hold fewer.
C9_ChunksOfBatchSize ==
    pc = "filter" =>
        /\ Len(chunks) = Ceil(Len(x), batch_size)
        /\ Concatenate(chunks) = x
        /\ \A j \in 1..Len(chunks) :
              /\ Len(chunks[j]) <= batch_size
              /\ j < Len(chunks) => Len(chunks[j]) = batch_size

\* C9 amended: ceil(m/b) contiguous chunks in row order, none empty, none
\* longer than b, the sizes non-increasing and differing by at most one
\* (the first m mod k chunks hold floor(m/k) + 1 rows, the others floor(m/k)).
C9_ChunksBalanced ==
    pc = "filter" =>
        /\ Len(chunks) = Ceil(Len(x), batch_size)
        /\ Concatenate(chunks) = x
        /\ \A j \in 1..Len(chunks) :
              /\ Len(chunks[j]) >= 1
              /\ Len(chunks[j]) <= batch_size
              /\ Len(chunks[j]) =
                    (Len(x) \div Len(chunks))
                    + (IF j <= Len(x) % Len(chunks) THEN 1 ELSE 0)

\* C9 witness: several chunks were predicted and the first is shorter than b
C9_Witness ==
    /\ pc = "filter"
    /\ Len(chunks) >= 2
    /\ Len(chunks[1]) < batch_size

\* C10: simulate_mineral draws the baseline noise of every element of every
\* target mineral with scale noise_scale * noise, noise being main's tunable.
C10_NoiseMultiplierApplied ==
    pc # "start" =>
        \A M \in Minerals : \A e \in Elements :
            noise_scale[M][e] = ElementNoise[e] * noise

----------------------------------------------------------------------------
(* Floating-point values of get_variable_percent: a rational n/d in lowest *)
(* terms with d > 0, or one of the IEEE specials, written with d = 0:      *)
(* 0/0 is nan, 1/0 is +inf, -1/0 is -inf.                                  *)

RECURSIVE GCD(_, _)
GCD(a, b) == IF b = 0 THEN a ELSE GCD(b, a % b)

AbsInt(a) == IF a < 0 THEN -a ELSE a
SignInt(a) == IF a < 0 THEN -1 ELSE IF a > 0 THEN 1 ELSE 0

Rat(num, den) ==
    LET g == GCD(AbsInt(num), AbsInt(den)) IN
    [n |-> SignInt(den) * (num \div g), d |-> AbsInt(den) \div g]

NaN == [n |-> 0, d |-> 0]
Zero == [n |-> 0, d |-> 1]
One == [n |-> 1, d |-> 1]
IsNaN(a) == a.d = 0 /\ a.n = 0
IsInf(a) == a.d = 0 /\ a.n # 0

\* The operators below bind each argument to its value once (a bound
\* variable of a singleton set), so that a nested expression is evaluated
\* once and not once per use of the parameter.

NegValue(a) == [n |-> -a.n, d |-> a.d]

AddValues(a, b) ==
    IF IsNaN(a) \/ IsNaN(b) THEN NaN
    ELSE IF IsInf(a) /\ IsInf(b) THEN (IF a.n = b.n THEN a ELSE NaN)
    ELSE IF IsInf(a) THEN a
    ELSE IF IsInf(b) THEN b
    ELSE Rat(a.n * b.d + b.n * a.d, a.d * b.d)

MulValues(a, b) ==
    IF IsNaN(a) \/ IsNaN(b) THEN NaN
    ELSE IF IsInf(a) \/ IsInf(b)
         THEN (IF a.n = 0 \/ b.n = 0 THEN NaN
               ELSE [n |-> SignInt(a.n) * SignInt(b.n), d |-> 0])
    ELSE Rat(a.n * b.n, a.d * b.d)

\* numpy division: x/0 is inf for x # 0 and nan for x = 0
DivValues(a, b) ==
    IF IsNaN(a) \/ IsNaN(b) THEN NaN
    ELSE IF IsInf(a) THEN (IF IsInf(b) THEN NaN
                           ELSE [n |-> a.n * (IF b.n < 0 THEN -1 ELSE 1), d |-> 0])
    ELSE IF IsInf(b) THEN Zero
    ELSE IF b.n = 0 THEN [n |-> SignInt(a.n), d |-> 0]
    ELSE Rat(a.n * b.d, a.d * b.n)

\* a < b; False when either is nan
LessValues(a, b) ==
    IF IsNaN(a) \/ IsNaN(b) THEN FALSE
    ELSE IF IsInf(a) \/ IsInf(b)
         THEN (IF a = b THEN FALSE
               ELSE IF IsInf(a) THEN a.n < 0
               ELSE b.n > 0)
    ELSE a.n * b.d < b.n * a.d

XAdd(a, b) == CHOOSE r \in {AddValues(p[1], p[2]) : p \in {<<a, b>>}} : TRUE
XSub(a, b) == CHOOSE r \in {AddValues(p[1], NegValue(p[2])) : p \in {<<a, b>>}} : TRUE
XMul(a, b) == CHOOSE r \in {MulValues(p[1], p[2]) : p \in {<<a, b>>}} : TRUE
XDiv(a, b) == CHOOSE r \in {DivValues(p[1], p[2]) : p \in {<<a, b>>}} : TRUE
XLess(a, b) == \E p \in {<<a, b>>} : LessValues(p[1], p[2])

\* np.abs
XAbs(a) == CHOOSE r \in {[n |-> AbsInt(p.n), d |-> p.d] : p \in {a}} : TRUE

\* np.clip(a, 0, None)
ClipLow(a) ==
    CHOOSE r \in {IF LessValues(p, Zero) THEN Zero ELSE p : p \in {a}} : TRUE

\* sum of the first k entries of the sequence s
RECURSIVE SumTo(_, _)
SumTo(s, k) == IF k = 0 THEN Zero ELSE XAdd(SumTo(s, k - 1), s[k])

\* ndarray.sum()
XSum(s) == CHOOSE r \in {SumTo(q, Len(q)) : q \in {s}} : TRUE

\* ndarray.mean(): nan for an empty array
XMean(s) == CHOOSE r \in {XDiv(SumTo(q, Len(q)), Rat(Len(q), 1)) : q \in {s}} : TRUE

----------------------------------------------------------------------------
(* get_variable_percent, lines 15-59 *)

MaxElements == 3
MaxSamples == 2
DrawSteps == 2
EpsilonInverse == 1000000

epsilon == Rat(1, EpsilonInverse)

\* the bounds a variable group may declare: 0 <= min <= max <= 1
BoundValues == {Rat(0, 1), Rat(1, 4), Rat(1, 1)}
ElementBounds ==
    {b \in [min : BoundValues, max : BoundValues] : ~XLess(b.max, b.min)}

RECURSIVE Formulas(_)
Formulas(k) ==
    IF k = 0 THEN {<<>>}
    ELSE {Append(f, b) : f \in Formulas(k - 1), b \in ElementBounds}

\* line 41
base == XSum([i \in 1..Len(formula) |-> formula[i].min])
\* line 42
remainder == XSub(One, base)
\* line 43
element_remainders == [i \in 1..Len(formula) |-> XSub(formula[i].max, formula[i].min)]

\* lines 50-51: s = v.sum(axis=1); v = (v/s)*remainder
Rescale(row) ==
    CHOOSE r \in {[i \in 1..Len(row) |-> XMul(XDiv(row[i], s), remainder)] :
                    s \in {XSum(row)}} : TRUE

\* lines 52-55 on one rescaled row
Redistribute(row) ==
    LET K == Len(row)
        mask == [i \in 1..K |-> XLess(row[i], element_remainders[i])]
        r == [i \in 1..K |-> ClipLow(XSub(row[i], element_remainders[i]))]
    IN  CHOOSE w \in
            {[i \in 1..K |->
                XAdd(XSub(row[i], r[i]), XMul(IF mask[i] THEN One ELSE Zero, share))] :
             share \in {XDiv(XSum(r), Rat(Cardinality({i \in 1..K : mask[i]}), 1))}} : TRUE

\* one row of lines 50-55
RefineRow(row) ==
    CHOOSE w \in {Redistribute(scaled) : scaled \in {Rescale(row)}} : TRUE

\* line 56
Converged(rows) ==
    XLess(XMean([i \in 1..Len(rows) |-> XAbs(XSub(remainder, XSum(rows[i])))]), epsilon)

SamplerInit ==
    /\ gpc = "start"
    /\ formula \in UNION {Formulas(k) : k \in 1..MaxElements}
    /\ n \in 1..MaxSamples
    /\ v = <<>>
    /\ iterations = 0
    /\ percents = <<>>

\* lines 36-47: np.random.uniform(0, e, (n, 1)) draws from [0, e)
Draw ==
    /\ gpc = "start"
    /\ \E u \in [1..n -> [1..Len(formula) -> 0..(DrawSteps - 1)]] :
          v' = [i \in 1..n |->
                  [j \in 1..Len(formula) |->
                      XMul(element_remainders[j], Rat(u[i][j], DrawSteps))]]
    /\ gpc' = "loop"
    /\ UNCHANGED <<formula, n, iterations, percents>>
    /\ UNCHANGED <<mainVars, massVars>>

\* line 49 with remainder <= 0: the loop body never runs
SkipLoop ==
    /\ gpc = "loop"
    /\ ~XLess(Zero, remainder)
    /\ gpc' = "return"
    /\ UNCHANGED <<formula, n, v, iterations, percents>>
    /\ UNCHANGED <<mainVars, massVars>>

\* lines 49-57: one iteration of the loop
Refine ==
    /\ gpc = "loop"
    /\ XLess(Zero, remainder)
    /\ \E refined \in {[i \in 1..Len(v) |-> RefineRow(v[i])]} :
         /\ v' = refined
         /\ gpc' = IF Converged(refined) THEN "return" ELSE "loop"
    /\ iterations' = 1 - iterations
    /\ UNCHANGED <<formula, n, percents>>
    /\ UNCHANGED <<mainVars, massVars>>

\* line 59
Return ==
    /\ gpc = "return"
    /\ percents' = [j \in 1..Len(formula) |->
                      [i \in 1..Len(v) |-> XAdd(formula[j].min, v[i][j])]]
    /\ gpc' = "done"
    /\ UNCHANGED <<formula, n, v, iterations>>
    /\ UNCHANGED <<mainVars, massVars>>

SamplerNext == Draw \/ SkipLoop \/ Refine \/ Return

\* main and simulate_mass are not running
MainIdle ==
    /\ pc = "idle"
    /\ noise = 0
    /\ batch_size = 0
    /\ x = <<>>
    /\ noise_scale = <<>>
    /\ mineral_mins = <<>>
    /\ model = -1
    /\ chunks = <<>>
    /\ labels = <<>>
    /\ err = "none"

\* the loop is single-threaded and every step of it is taken: weak fairness
SamplerSpecInit == SamplerInit /\ MainIdle /\ MassIdle

SamplerSpec ==
    /\ SamplerSpecInit
    /\ [][SamplerNext]_vars
    /\ WF_vars(SamplerNext)

----------------------------------------------------------------------------
(* Properties of get_variable_percent *)

\* the group admits a composition: sum of min <= 1 <= sum of max
Feasible ==
    /\ ~XLess(One, base)
    /\ ~XLess(XSum([j \in 1..Len(formula) |-> formula[j].max]), One)

\* C3: for a feasible group with 0 <= min <= max <= 1 and sum of min <= 1,
\* every returned value of an element lies within its [min, max], for every row.
C3_ValuesWithinBounds ==
    (gpc = "done" /\ Feasible) =>
        \A j \in 1..Len(formula) : \A i \in 1..Len(percents[j]) :
            /\ ~XLess(percents[j][i], formula[j].min)
            /\ ~XLess(formula[j].max, percents[j][i])

\* C4: for every group and sample count the refinement loop ends and the
\* function returns an allocation.
C4_SamplerReturns == <>(gpc = "done")

\* C5: when the minimum bounds sum to more than 1, get_variable_percent
\* returns no composition (it raises instead).
C5_InfeasibleMinimaRejected ==
    XLess(One, base) => (gpc # "done" /\ percents = <<>>)

----------------------------------------------------------------------------
(* simulate_mass, lines 61-112 *)

MaxComponents == 2
MaxQuantity == 2

\* a YAML value that may stand as a formula component
Value(type, value, hasComponents, group, quantity) ==
    [type |-> type, value |-> value, hasComponents |-> hasComponents,
     components |-> group, quantity |-> quantity]

\* `quantity` of a group: absent, a fixed integer, or an inclusive range
Quantities == {<<>>, <<MaxQuantity>>, <<1, MaxQuantity>>}

ComponentValues ==
    {Value("str", m, FALSE, <<>>, <<>>) : m \in {"SiO2", "FeO"}}
    \cup {Value("dict", "", TRUE, <<"FeO", "MgO">>, q) : q \in Quantities}
    \cup {Value("dict", "", FALSE, <<>>, q) : q \in {<<>>, <<MaxQuantity>>}}
    \cup {Value("int", "7", FALSE, <<>>, <<>>)}

RECURSIVE ComponentLists(_)
ComponentLists(k) ==
    IF k = 0 THEN {<<>>}
    ELSE {Append(l, c) : l \in ComponentLists(k - 1), c \in ComponentValues}

\* the formula argument: a list of components or a single value, bare or
\* under the "formula" key of a dict
Arguments ==
    [wrapped : BOOLEAN, isList : {TRUE},
     items : UNION {ComponentLists(k) : k \in 0..MaxComponents}]
    \cup [wrapped : BOOLEAN, isList : {FALSE}, items : ComponentLists(1)]

\* lib.get_formula(molecule, format="mass"): element masses per formula unit
GetFormula(molecule) ==
    IF molecule = "SiO2" THEN <<<<"Si", 28>>, <<"O", 32>>>>
    ELSE IF molecule = "FeO" THEN <<<<"Fe", 56>>, <<"O", 16>>>>
    ELSE <<<<"Mg", 24>>, <<"O", 16>>>>

\* the percents get_variable_percent may return for one molecule
PercentValues == {Rat(0, 1), Rat(1, 2), Rat(1, 1)}

\* lines 81-85
append(elements, element, mass) ==
    IF element \in DOMAIN elements
    THEN [elements EXCEPT ![element] = XAdd(@, mass)]
    ELSE [e \in DOMAIN elements \cup {element} |->
            IF e = element THEN mass ELSE elements[e]]

\* the loops over get_formula(...).items() at lines 89-90 and 100-101
RECURSIVE AppendMolecule(_, _, _, _)
AppendMolecule(elements, molecule, factor, k) ==
    IF k = 0 THEN elements
    ELSE append(AppendMolecule(elements, molecule, factor, k - 1),
                GetFormula(molecule)[k][1],
                XMul(factor, Rat(GetFormula(molecule)[k][2], 1)))

\* the loop over get_variable_percent(...) at lines 99-101
RECURSIVE AppendGroup(_, _, _, _, _)
AppendGroup(elements, group, percent, quantity, k) ==
    IF k = 0 THEN elements
    ELSE AppendMolecule(AppendGroup(elements, group, percent, quantity, k - 1),
                        group[k], XMul(percent[k], Rat(quantity, 1)),
                        Len(GetFormula(group[k])))

\* df.sum(axis=1) at line 108
RECURSIVE TotalMass(_, _)
TotalMass(elements, S) ==
    IF S = {} THEN Zero
    ELSE LET e == CHOOSE el \in S : TRUE
         IN  XAdd(elements[e], TotalMass(elements, S \ {e}))

NoException == [exception |-> "none", names |-> Value("", "", FALSE, <<>>, <<>>)]

MassInit ==
    /\ mpc = "start"
    /\ argument \in Arguments
    /\ components = <<>>
    /\ position = 0
    /\ mineral_elements = <<>>
    /\ df = <<>>
    /\ raised = NoException

\* lines 75-80
Normalize ==
    /\ mpc = "start"
    /\ components' = argument.items
    /\ position' = 1
    /\ mpc' = "loop"
    /\ UNCHANGED <<argument, mineral_elements, df, raised>>
    /\ UNCHANGED <<mainVars, samplerVars>>

\* lines 88-90: a molecule string
FixedMolecule ==
    /\ mpc = "loop"
    /\ position <= Len(components)
    /\ components[position].type = "str"
    /\ mineral_elements' =
          AppendMolecule(mineral_elements, components[position].value, One,
                         Len(GetFormula(components[position].value)))
    /\ position' = position + 1
    /\ UNCHANGED <<mpc, argument, components, df, raised>>
    /\ UNCHANGED <<mainVars, samplerVars>>

\* lines 91-101: a dict with the `components` key
VariableGroup ==
    /\ mpc = "loop"
    /\ position <= Len(components)
    /\ components[position].type = "dict"
    /\ components[position].hasComponents
    /\ LET c == components[position] IN
       \E quantity \in (IF Len(c.quantity) = 0 THEN {1}
                        ELSE IF Len(c.quantity) = 1 THEN {c.quantity[1]}
                        ELSE c.quantity[1]..c.quantity[2]) :
       \E percent \in [1..Len(c.components) -> PercentValues] :
          mineral_elements' =
              AppendGroup(mineral_elements, c.components, percent, quantity,
                          Len(c.components))
    /\ position' = position + 1
    /\ UNCHANGED <<mpc, argument, components, df, raised>>
    /\ UNCHANGED <<mainVars, samplerVars>>

\* lines 91-99: a dict without the `components` key: component['components']
\* raises KeyError('components')
MissingComponents ==
    /\ mpc = "loop"
    /\ position <= Len(components)
    /\ components[position].type = "dict"
    /\ ~components[position].hasComponents
    /\ raised' = [exception |-> "KeyError",
                  names |-> Value("str", "components", FALSE, <<>>, <<>>)]
    /\ mpc' = "error"
    /\ UNCHANGED <<argument, components, position, mineral_elements, df>>
    /\ UNCHANGED <<mainVars, samplerVars>>

\* lines 102-103: neither str nor dict
UnrecognizedFormat ==
    /\ mpc = "loop"
    /\ position <= Len(components)
    /\ components[position].type \notin {"str", "dict"}
    /\ raised' = [exception |-> "ValueError", names |-> components[position]]
    /\ mpc' = "error"
    /\ UNCHANGED <<argument, components, position, mineral_elements, df>>
    /\ UNCHANGED <<mainVars, samplerVars>>

\* lines 105-112
BuildFrame ==
    /\ mpc = "loop"
    /\ position > Len(components)
    /\ \E mass \in {TotalMass(mineral_elements, DOMAIN mineral_elements)} :
          df' = [e \in DOMAIN mineral_elements |->
                    [mass |-> mineral_elements[e],
                     percent |-> XDiv(mineral_elements[e], mass)]]
    /\ mpc' = "done"
    /\ UNCHANGED <<argument, components, position, mineral_elements, raised>>
    /\ UNCHANGED <<mainVars, samplerVars>>

MassNext ==
    \/ Normalize \/ FixedMolecule \/ VariableGroup
    \/ MissingComponents \/ UnrecognizedFormat \/ BuildFrame

MassSpecInit == MassInit /\ MainIdle /\ SamplerIdle

MassSpec == MassSpecInit /\ [][MassNext]_vars

----------------------------------------------------------------------------
(* Properties of simulate_mass *)

\* neither a molecule string nor a group carrying `components`
Unrecognized(c) ==
    /\ c.type # "str"
    /\ ~(c.type = "dict" /\ c.hasComponents)

\* C6: when the formula holds a component that is neither a molecule string
\* nor a group carrying `components` (a dict without that key included),
\* simulate_mass ends in a format error (ValueError) naming that component
\* and produces no composition table.
C6_UnrecognizedComponentNamed ==
    (/\ mpc \in {"done", "error"}
     /\ \E k \in 1..Len(components) : Unrecognized(components[k]))
    => LET first == CHOOSE k \in 1..Len(components) :
                       /\ Unrecognized(components[k])
                       /\ \A j \in 1..(k - 1) : ~Unrecognized(components[j])
       IN  /\ mpc = "error"
           /\ raised.exception = "ValueError"
           /\ raised.names = components[first]

====
